---- MODULE Spec2Model ----
(***************************************************************************)
(* FabScanPi laser scanner: the scan processor actor                       *)
(* (src/fabscan/scanner/laserscanner/FSScanProcessor.py).                  *)
(*                                                                         *)
(* Three kinds of threads of control share the processor object `self`:    *)
(*   - the actor thread, which takes one command at a time from its inbox  *)
(*     (on_receive) and may block in image_task_q.put or in a drain loop;  *)
(*   - the image workers, which take tasks from image_task_q and post an   *)
(*     ON_IMAGE_PROCESSED event each;                                      *)
(*   - the event callbacks image_processed, which are not commands of the  *)
(*     actor (on_receive has no branch for them): they are subscribed to   *)
(*     the event manager and guard the progress counter by a semaphore.    *)
(***************************************************************************)
EXTENDS Integers, Sequences, FiniteSets, TLC

(* ------------------------------ bounds -------------------------------- *)

\* public START / STOP commands a client sends in one behaviour
MaxCommands == 2
\* image_processed callbacks that may be running at the same time
NumHandlers == 2
\* largest number of points in the batch of one laser frame (at least one)
MaxBatch == 1
\* largest config.process_numbers
MaxProcesses == 1
\* largest laser count (config.laser.numbers, settings.laser_positions)
MaxLasers == 2
\* public commands of a behaviour that follows the step chains of two sessions
MaxChainCommands == 3

(* ----------------------- constants of the program --------------------- *)

\* steps of one turntable rotation (start_scan)
StepsPerRotation == 3200

\* settings.resolution values: both divide 3200 (2 and 1 frames per rotation)
Resolutions == {1600, 3200}

Handlers == 1 .. NumHandlers

\* A behaviour has either one callback at a time and any MaxCommands commands, or
\* NumHandlers callbacks at a time and a single START among its commands.
Scopes == {[handlers |-> 1, starts |-> MaxCommands, commands |-> MaxCommands,
            stops |-> MaxCommands],
           [handlers |-> NumHandlers, starts |-> 1, commands |-> MaxCommands,
            stops |-> MaxCommands]}
\* One callback at a time, MaxChainCommands commands: at most MaxCommands STARTs
\* and one STOP, in any order.
ChainScopes == {[handlers |-> 1, starts |-> MaxCommands, commands |-> MaxChainCommands,
                 stops |-> 1]}
Workers == 1 .. MaxProcesses

START == "START"
STOP == "STOP"
SCAN_NEXT_TEXTURE_POSITION == "_SCAN_NEXT_TEXTURE_POSITION"
SCAN_NEXT_OBJECT_POSITION == "_SCAN_NEXT_OBJECT_POSITION"

PROCESS_COLOR_IMAGE == "PROCESS_COLOR_IMAGE"
PROCESS_DEPTH_IMAGE == "PROCESS_DEPTH_IMAGE"

\* self.point_cloud = None
None == [live |-> FALSE, size |-> 0]
\* FSPointCloud(color=...): a fresh, empty point cloud
FSPointCloud == [live |-> TRUE, size |-> 0]

\* settings.camera.brightness, .contrast and .saturation as the user set them
UserCamera == [brightness |-> 60, contrast |-> 10, saturation |-> 10]
\* what init_texture_scan sets them to for the texture frames (lines 249-251)
TextureCamera == [brightness |-> 50, contrast |-> 0, saturation |-> 0]
\* no settings file written
NoCamera == [brightness |-> -1, contrast |-> -1, saturation |-> -1]

NoTask == [task_type |-> "none", prefix |-> 0, position |-> 0]
NoEvent == [image_type |-> "none", points |-> 0, prefix |-> 0]
\* the event a callback holds, and whether it took it while no point cloud was alive
NoneHeld == [event |-> NoEvent, late |-> FALSE]

VARIABLES
    self,          \* the FSScanProcessorSingleton object, its hardware and its worker pool
    settings,      \* self.settings
    config,        \* self.config
    inbox,         \* the actor's inbox (actor_ref.tell appends)
    apc,           \* where the actor thread is: "recv", "tex_put", "obj_put", "tex_drain"
    atask,         \* the ImageTask the actor is putting
    image_task_q,  \* multiprocessing.Queue(process_numbers + 1)
    event_q,       \* events posted by the workers, not yet dispatched
    hpc,           \* where each image_processed callback is
    hev,           \* the event each callback handles
    sent,          \* public commands sent so far, and the STARTs among them
    scope,         \* what a behaviour explores: callbacks running at once, STARTs sent
    g              \* history of the current session (observation only)

vars == <<self, settings, config, inbox, apc, atask, image_task_q, event_q, hpc, hev, sent, scope, g>>

(* --------------------------- the worker pool --------------------------- *)

\* FSImageWorkerPool.create: idempotent, the pool accepts work
WorkerPool_create(s) == [s EXCEPT !.workers_active = TRUE]

\* FSImageWorkerPool.kill: no new work is taken, tasks in flight are abandoned
WorkerPool_kill(s) ==
    [s EXCEPT !.workers_active = FALSE, !.busy = [w \in Workers |-> NoTask]]

(* --------------------------- the point cloud --------------------------- *)

\* FSPointCloud.append_points: safe under concurrent callers
PointCloud_append_points(pc, n) == [pc EXCEPT !.size = @ + n]

append_points_lost(s, n) ==
    IF s.point_cloud.live
    THEN [s EXCEPT !.point_cloud = [live |-> TRUE, size |-> n]]
    ELSE s

append_points(s, n) ==
    IF s.point_cloud.live
    THEN [s EXCEPT !.point_cloud = PointCloud_append_points(@, n)]
    ELSE s

(* ------------------------- methods of the actor ------------------------ *)

reset_scanner_state(s) ==
    [s EXCEPT !.laser = FALSE, !.led = FALSE, !.motors = FALSE,
              !.progress = 0, !.current_position = 0,
              !.number_of_pictures = 0, !.total = 0, !.point_cloud = None]

start_scan_settings_lasers(s, st, cf, id) ==
    LET n == StepsPerRotation \div st.resolution IN
    [s EXCEPT !.stop_scan = FALSE, !.motors = TRUE,
              !.resolution = st.resolution,
              !.laser_positions = st.laser_positions,
              !.is_color_scan = st.color,
              !.number_of_pictures = n,
              !.current_position = 0,
              !.prefix = id,
              !.point_cloud = FSPointCloud,
              !.total = IF st.color THEN n * 2 * st.laser_positions
                        ELSE n * st.laser_positions]

start_scan(s, st, cf, id) ==
    LET n == StepsPerRotation \div st.resolution IN
    [s EXCEPT !.stop_scan = FALSE, !.motors = TRUE,
              !.resolution = st.resolution,
              !.laser_positions = st.laser_positions,
              !.is_color_scan = st.color,
              !.number_of_pictures = n,
              !.current_position = 0,
              !.prefix = id,
              !.point_cloud = FSPointCloud,
              !.total = IF st.color THEN n * 2 * cf.laser_numbers
                        ELSE n * cf.laser_numbers]

\* init_texture_scan: the processor (lines 243-247, 252-254) ...
init_texture_scan(s, st) ==
    [WorkerPool_create(s) EXCEPT !.scan_camera = st.camera,
                                 !.led = TRUE, !.stream = TRUE]

\* ... and the settings (lines 249-251)
init_texture_scan_camera(st) == [st EXCEPT !.camera = TextureCamera]

\* finish_texture_scan: the processor (lines 259-264) ...
finish_texture_scan(s) ==
    [s EXCEPT !.current_position = 0, !.stream = FALSE, !.led = FALSE]

\* ... and the settings (lines 266-268)
finish_texture_scan_camera(s, st) == [st EXCEPT !.camera = s.scan_camera]

init_object_scan(s, st) ==
    LET s1 == [s EXCEPT !.current_position = 0,
                        !.laser_positions = st.laser_positions,
                        !.led = TRUE, !.laser = TRUE, !.stream = TRUE]
    IN IF s1.workers_active THEN s1 ELSE WorkerPool_create(s1)

finish_object_scan(s) == [WorkerPool_kill(s) EXCEPT !.stream = FALSE]

stop_scan(s) ==
    [reset_scanner_state(WorkerPool_kill([s EXCEPT !.stop_scan = TRUE]))
        EXCEPT !.stream = FALSE]

\* scan_complete after the files are written: lines 422-436
scan_complete_reset(s) == [reset_scanner_state(s) EXCEPT !.stream = FALSE]

\* what scan_complete does and emits, in program order: lines 409-420 ...
scan_complete_save_notices ==
    <<"point_cloud.saveAsFile", "settings.saveAsFile", "SAVING_POINT_CLOUD">>

scan_complete_status_first ==
    <<"delete_image_folders", "reset_scanner_state", "SCAN_COMPLETE", "COMPLETE",
      "stopStream">>

\* ... and lines 422-436
scan_complete_reset_notices ==
    <<"delete_image_folders", "reset_scanner_state", "COMPLETE", "SCAN_COMPLETE",
      "stopStream">>

(* ------------------------------- history ------------------------------- *)

\* What an observer has seen since the last START was processed (session ..
\* acqObj), and of the counter and the cloud:
\*   cancelled      a STOP was processed in this session
\*   frames, total  number_of_pictures and _total as start_scan set them
\*   completeCalls  entries into scan_complete
\*   texInc, objInc increments of _progress by texture and by laser frames
\*   acqTex, acqObj positions of the frames acquired in each phase, in order
\*   counted        points of the frames counted in _progress since it was last zeroed
\*   appended       points appended to the current point_cloud
\*   flushSize, flushCounted  size of the cloud and `counted` at the last saveAsFile
\*   stopLatency    frames acquired while a STOP was waiting in the inbox
\*   notices        what the scan_complete calls did and emitted since the last of
\*                  them began to save
\*   camera         settings.camera when start_scan ran
\*   savedCamera    settings.camera in the settings file of the session
NewSession(id, s, old) ==
    [session |-> id, cancelled |-> FALSE,
     frames |-> s.number_of_pictures, total |-> s.total,
     completeCalls |-> 0, texInc |-> 0, objInc |-> 0,
     acqTex |-> <<>>, acqObj |-> <<>>,
     counted |-> old.counted, appended |-> 0,
     flushSize |-> old.flushSize, flushCounted |-> old.flushCounted,
     stopLatency |-> old.stopLatency, notices |-> <<>>,
     camera |-> old.camera, savedCamera |-> NoCamera]

(* -------------------------------- Init --------------------------------- *)

Configured(scopes) ==
    /\ settings \in [resolution : Resolutions, color : BOOLEAN,
                     laser_positions : 1 .. MaxLasers, camera : {UserCamera}]
    /\ config \in [process_numbers : 1 .. MaxProcesses, laser_numbers : 1 .. MaxLasers]
    /\ self = [prefix |-> 0, resolution |-> 16, number_of_pictures |-> 0, total |-> 0,
               laser_positions |-> 1, progress |-> 0, is_color_scan |-> TRUE,
               point_cloud |-> None, current_position |-> 0, stop_scan |-> FALSE,
               motors |-> FALSE, laser |-> FALSE, led |-> FALSE, stream |-> FALSE,
               workers_active |-> FALSE, busy |-> [w \in Workers |-> NoTask],
               scan_camera |-> settings.camera]
    /\ inbox = <<>>
    /\ apc = "recv"
    /\ atask = NoTask
    /\ image_task_q = <<>>
    /\ event_q = <<>>
    /\ hpc = [h \in Handlers |-> "idle"]
    /\ hev = [h \in Handlers |-> NoneHeld]
    /\ sent = [commands |-> 0, starts |-> 0]
    /\ scope \in scopes
    /\ g = NewSession(0, [number_of_pictures |-> 0, total |-> 0],
                      [counted |-> 0, flushSize |-> 0, flushCounted |-> 0,
                       stopLatency |-> 0, camera |-> settings.camera])

Init == Configured(Scopes)

\* start_scan and init_object_scan only store settings.laser_positions and no step
\* reads the stored copy, so the step chains are followed for one value of it
InitChains == Configured(ChainScopes) /\ settings.laser_positions = 1

(* ------------------------------ the client ----------------------------- *)

\* a client tells the actor START or STOP
ClientSend(c) ==
    /\ sent.commands < scope.commands
    /\ c = START => sent.starts < scope.starts
    /\ c = STOP => sent.commands - sent.starts < scope.stops
    /\ sent' = [commands |-> sent.commands + 1,
                starts |-> sent.starts + IF c = START THEN 1 ELSE 0]
    /\ inbox' = Append(inbox, c)
    /\ UNCHANGED <<self, settings, config, apc, atask, image_task_q, event_q, hpc, hev,
                   scope, g>>

(* --------------------------- the actor thread -------------------------- *)

\* image_task_q = multiprocessing.Queue(self.config.process_numbers + 1)
QueueCapacityPlusTwo(cf) == cf.process_numbers + 2

QueueCapacity(cf) == cf.process_numbers + 1

\* Queue.put(task, True) returns once the queue has room
PutEnabled == Len(image_task_q) < QueueCapacity(config)

Receives(c) == apc = "recv" /\ inbox # <<>> /\ Head(inbox) = c

\* a STOP is waiting in the inbox
StopWaits == \E i \in 1 .. Len(inbox) : inbox[i] = STOP

\* the history after one more frame was acquired
Acquired(h) == [h EXCEPT !.stopLatency = IF StopWaits THEN @ + 1 ELSE @]

\* on_receive, START: start_scan
OnReceiveStart ==
    /\ Receives(START)
    /\ LET s1 == start_scan(self, settings, config, g.session + 1) IN
        /\ self' = s1
        /\ inbox' = Append(Tail(inbox), IF s1.is_color_scan
                                        THEN SCAN_NEXT_TEXTURE_POSITION
                                        ELSE SCAN_NEXT_OBJECT_POSITION)
        /\ g' = NewSession(g.session + 1, s1, [g EXCEPT !.camera = settings.camera])
    /\ UNCHANGED <<settings, config, apc, atask, image_task_q, event_q, hpc, hev, sent, scope>>

\* on_receive, STOP: stop_scan
OnReceiveStop ==
    /\ Receives(STOP)
    /\ self' = stop_scan(self)
    /\ inbox' = Tail(inbox)
    /\ g' = [g EXCEPT !.cancelled = TRUE, !.counted = 0, !.appended = 0,
                      !.stopLatency = 0]
    /\ UNCHANGED <<settings, config, apc, atask, image_task_q, event_q, hpc, hev, sent, scope>>

\* image_task_q.put(task) has returned: the position advances and the next step
\* is posted (lines 282-285, 329-334)
PutReturns(s, task, box, next) ==
    /\ image_task_q' = Append(image_task_q, task)
    /\ self' = [s EXCEPT !.current_position = @ + 1]
    /\ inbox' = Append(box, next)
    /\ apc' = "recv"
    /\ atask' = NoTask

\* a phase step acquires a frame and puts its task; a full queue blocks the actor
\* in the put
AcquireAndPut(s, task, blocked, next) ==
    IF PutEnabled
    THEN PutReturns(s, task, Tail(inbox), next)
    ELSE /\ self' = s
         /\ atask' = task
         /\ apc' = blocked
         /\ inbox' = Tail(inbox)
         /\ UNCHANGED image_task_q

\* the drain loop of scan_next_texture_position has seen the queue empty
\* (lines 287-292)
TextureDrained(box) ==
    /\ self' = finish_texture_scan(self)
    /\ settings' = finish_texture_scan_camera(self, settings)
    /\ inbox' = Append(box, SCAN_NEXT_OBJECT_POSITION)
    /\ apc' = "recv"

\* on_receive, _SCAN_NEXT_TEXTURE_POSITION: scan_next_texture_position
ScanNextTexturePosition ==
    /\ Receives(SCAN_NEXT_TEXTURE_POSITION)
    /\ IF self.stop_scan
       THEN /\ inbox' = Tail(inbox)
            /\ UNCHANGED <<self, settings, apc, atask, image_task_q, g>>
       ELSE IF self.current_position <= self.number_of_pictures
       THEN /\ AcquireAndPut(
                 IF self.current_position = 0
                 THEN init_texture_scan(self, settings) ELSE self,
                 [task_type |-> PROCESS_COLOR_IMAGE, prefix |-> self.prefix,
                  position |-> self.current_position],
                 "tex_put", SCAN_NEXT_TEXTURE_POSITION)
            /\ settings' = IF self.current_position = 0
                           THEN init_texture_scan_camera(settings) ELSE settings
            /\ g' = [Acquired(g) EXCEPT !.acqTex = Append(@, self.current_position)]
       ELSE /\ IF image_task_q = <<>>
               THEN TextureDrained(Tail(inbox))
               ELSE /\ apc' = "tex_drain"
                    /\ inbox' = Tail(inbox)
                    /\ UNCHANGED <<self, settings>>
            /\ UNCHANGED <<atask, image_task_q, g>>
    /\ UNCHANGED <<config, event_q, hpc, hev, sent, scope>>

\* the actor, blocked in the put of a texture task, gets room
TexturePut ==
    /\ apc = "tex_put"
    /\ PutEnabled
    /\ PutReturns(self, atask, inbox, SCAN_NEXT_TEXTURE_POSITION)
    /\ UNCHANGED <<settings, config, event_q, hpc, hev, sent, scope, g>>

\* the actor, polling in the drain loop, sees the queue empty
TextureDrain ==
    /\ apc = "tex_drain"
    /\ image_task_q = <<>>
    /\ TextureDrained(inbox)
    /\ UNCHANGED <<config, atask, image_task_q, event_q, hpc, hev, sent, scope, g>>

\* on_receive, _SCAN_NEXT_OBJECT_POSITION: scan_next_object_position
ScanNextObjectPosition ==
    /\ Receives(SCAN_NEXT_OBJECT_POSITION)
    /\ IF self.stop_scan
       THEN inbox' = Tail(inbox) /\ UNCHANGED <<self, apc, atask, image_task_q, g>>
       ELSE IF self.current_position <= self.number_of_pictures
       THEN /\ AcquireAndPut(
                 IF self.current_position = 0
                 THEN init_object_scan(self, settings) ELSE self,
                 [task_type |-> PROCESS_DEPTH_IMAGE, prefix |-> self.prefix,
                  position |-> self.current_position],
                 "obj_put", SCAN_NEXT_OBJECT_POSITION)
            /\ g' = [Acquired(g) EXCEPT !.acqObj = Append(@, self.current_position)]
       ELSE /\ self' = finish_object_scan(self)
            /\ inbox' = Tail(inbox)
            /\ UNCHANGED <<apc, atask, image_task_q, g>>
    /\ UNCHANGED <<settings, config, event_q, hpc, hev, sent, scope>>

\* the actor, blocked in the put of a laser task, gets room
ObjectPut ==
    /\ apc = "obj_put"
    /\ PutEnabled
    /\ PutReturns(self, atask, inbox, SCAN_NEXT_OBJECT_POSITION)
    /\ UNCHANGED <<settings, config, event_q, hpc, hev, sent, scope, g>>

(* ----------------------------- the workers ----------------------------- *)

\* the points the image processor may find in a frame
BatchSizes(task) ==
    IF task.task_type = PROCESS_COLOR_IMAGE THEN {0} ELSE 1 .. MaxBatch

\* a worker of the active pool takes the next task
WorkerGet(w) ==
    /\ self.workers_active
    /\ w <= config.process_numbers
    /\ self.busy[w] = NoTask
    /\ image_task_q # <<>>
    /\ self' = [self EXCEPT !.busy[w] = Head(image_task_q)]
    /\ image_task_q' = Tail(image_task_q)
    /\ UNCHANGED <<settings, config, inbox, apc, atask, event_q, hpc, hev, sent, scope, g>>

\* the worker posts the result: a point batch for a laser frame, nothing for a
\* texture frame
WorkerDone(w) ==
    /\ self.busy[w] # NoTask
    /\ \E n \in BatchSizes(self.busy[w]) :
        event_q' = Append(event_q,
              [image_type |-> IF self.busy[w].task_type = PROCESS_COLOR_IMAGE
                              THEN "color" ELSE "depth",
               points |-> n, prefix |-> self.busy[w].prefix])
    /\ self' = [self EXCEPT !.busy[w] = NoTask]
    /\ UNCHANGED <<settings, config, inbox, apc, atask, image_task_q, hpc, hev, sent, scope, g>>

(* ---------------------- the image_processed callbacks ------------------ *)

\* the callbacks are alike: an event goes to the first idle one
FirstIdle(h) ==
    /\ h <= scope.handlers
    /\ hpc[h] = "idle"
    /\ \A k \in Handlers : k < h => hpc[k] # "idle"

\* image_processed up to its first access to shared state: append_points for a
\* laser frame (line 373), the increment for a texture frame (lines 387-389)
ImageProcessed(h) ==
    /\ FirstIdle(h)
    /\ event_q # <<>>
    /\ event_q' = Tail(event_q)
    /\ IF Head(event_q).image_type = "depth"
       THEN /\ self' = append_points(self, Head(event_q).points)
            /\ hpc' = [hpc EXCEPT ![h] = "inc"]
            /\ hev' = [hev EXCEPT ![h] = [event |-> Head(event_q),
                                          late |-> ~ self.point_cloud.live]]
            /\ g' = [g EXCEPT !.appended =
                        IF self.point_cloud.live THEN @ + Head(event_q).points ELSE @]
       ELSE /\ self' = [self EXCEPT !.progress = @ + 1]
            /\ hpc' = [hpc EXCEPT ![h] = "cmp"]
            /\ hev' = hev
            /\ g' = [g EXCEPT !.texInc = @ + 1]
    /\ UNCHANGED <<settings, config, inbox, apc, atask, image_task_q, sent, scope>>

\* lines 387-389 for a laser frame: semaphore.acquire, _progress += 1, release
ImageProcessedIncrement(h) ==
    /\ hpc[h] = "inc"
    /\ self' = [self EXCEPT !.progress = @ + 1]
    /\ hpc' = [hpc EXCEPT ![h] = "cmp"]
    /\ hev' = [hev EXCEPT ![h] = NoneHeld]
    /\ g' = [g EXCEPT !.objInc = @ + 1, !.counted = @ + hev[h].event.points]
    /\ UNCHANGED <<settings, config, inbox, apc, atask, image_task_q, event_q, sent, scope>>

\* line 400: if self._progress == self._total
ImageProcessedCompare(h) ==
    /\ hpc[h] = "cmp"
    /\ hpc' = [hpc EXCEPT ![h] = IF self.progress = self.total THEN "drain" ELSE "idle"]
    /\ UNCHANGED <<self, settings, config, inbox, apc, atask, image_task_q, event_q,
                   hev, sent, scope, g>>

\* lines 401-403: the drain loop ends when the queue is seen empty
ImageProcessedDrain(h) ==
    /\ hpc[h] = "drain"
    /\ image_task_q = <<>>
    /\ hpc' = [hpc EXCEPT ![h] = "save"]
    /\ UNCHANGED <<self, settings, config, inbox, apc, atask, image_task_q, event_q,
                   hev, sent, scope, g>>

\* scan_complete, lines 409-420: self.point_cloud.get_size() raises on None (the
\* callback ends there), else the cloud and the settings are written
ScanCompleteSave(h) ==
    /\ hpc[h] = "save"
    /\ IF self.point_cloud.live
       THEN /\ hpc' = [hpc EXCEPT ![h] = "reset"]
            /\ g' = [g EXCEPT !.completeCalls = @ + 1,
                              !.flushSize = self.point_cloud.size,
                              !.flushCounted = g.counted,
                              !.notices = scan_complete_save_notices,
                              !.savedCamera = settings.camera]
       ELSE /\ hpc' = [hpc EXCEPT ![h] = "idle"]
            /\ g' = [g EXCEPT !.completeCalls = @ + 1]
    /\ UNCHANGED <<self, settings, config, inbox, apc, atask, image_task_q, event_q,
                   hev, sent, scope>>

\* scan_complete, lines 422-436: reset, COMPLETE is published, the stream stops
ScanCompleteReset(h) ==
    /\ hpc[h] = "reset"
    /\ self' = scan_complete_reset(self)
    /\ hpc' = [hpc EXCEPT ![h] = "idle"]
    /\ g' = [g EXCEPT !.counted = 0, !.appended = 0,
                      !.notices = @ \o scan_complete_reset_notices]
    /\ UNCHANGED <<settings, config, inbox, apc, atask, image_task_q, event_q, hev, sent, scope>>

(* ------------------------------- the system ---------------------------- *)

\* every step but a client's
SystemNext ==
    \/ OnReceiveStart
    \/ OnReceiveStop
    \/ ScanNextTexturePosition
    \/ TexturePut
    \/ TextureDrain
    \/ ScanNextObjectPosition
    \/ ObjectPut
    \/ \E w \in Workers : WorkerGet(w)
    \/ \E w \in Workers : WorkerDone(w)
    \/ \E h \in Handlers : ImageProcessed(h)
    \/ \E h \in Handlers : ImageProcessedIncrement(h)
    \/ \E h \in Handlers : ImageProcessedCompare(h)
    \/ \E h \in Handlers : ImageProcessedDrain(h)
    \/ \E h \in Handlers : ScanCompleteSave(h)
    \/ \E h \in Handlers : ScanCompleteReset(h)

Next ==
    \/ \E c \in {START, STOP} : ClientSend(c)
    \/ SystemNext

Spec == Init /\ [][Next]_vars

\* the same program, explored over ChainScopes
SpecChains == InitChains /\ [][Next]_vars

(* ------------------------------- the claims ---------------------------- *)

\* the only command sent so far is one START: the session is the first, and it is
\* not cancelled
OneStartOnly == sent.commands = 1 /\ sent.starts = 1 /\ g.session = 1

\* Up to what a sequence holds of 0, 1, 2, ...
IsCountingUp(seq, last) ==
    /\ Len(seq) <= last + 1
    /\ \A i \in 1 .. Len(seq) : seq[i] = i - 1

Blocked == apc \in {"tex_put", "obj_put"}

\* C1: within one session scan_complete is entered at most once, whatever the
\* interleaving of the image_processed callbacks.
C1_FinalizesOnce == g.completeCalls <= 1

\* C2: a scan that was started and never cancelled finalizes: the actor and the
\* callbacks never come to rest (nothing left to do, every acquired frame processed
\* and counted) with the counter below the total and scan_complete not run.
C2_Finalizes ==
    (/\ OneStartOnly
     /\ ~ ENABLED SystemNext
     /\ g.texInc + g.objInc = Len(g.acqTex) + Len(g.acqObj)
     /\ self.progress < self.total)
    => g.completeCalls >= 1

\* C3: from the STOP handler's return to the next START the motors, the laser, the
\* LED and the camera stream are off, position, progress and total are 0 and the
\* point cloud is dropped.
C3_StopResets ==
    g.cancelled =>
        /\ ~ self.motors /\ ~ self.laser /\ ~ self.led /\ ~ self.stream
        /\ self.current_position = 0 /\ self.progress = 0 /\ self.total = 0
        /\ self.point_cloud = None

\* C4: a callback that takes its event while no session is alive (the point cloud
\* is dropped) leaves the progress counter as it is.
C4_LateEventDiscarded ==
    [][/\ (~ self.point_cloud.live /\ event_q # <<>> /\ event_q' = Tail(event_q))
            => self'.progress = self.progress
       /\ \A h \in Handlers :
            (hpc[h] = "inc" /\ hev[h].late /\ hpc'[h] = "cmp")
            => self'.progress = self.progress]_vars

\* C5: START sets the total to frames * 2 * laser_positions for a color scan and to
\* frames * laser_positions otherwise, laser_positions being the laser count START
\* took from the settings, and frames * resolution = 3200.
C5_TotalFromSettings ==
    g.session >= 1 =>
        /\ g.frames * settings.resolution = StepsPerRotation
        /\ g.total = g.frames * (IF settings.color THEN 2 ELSE 1) * settings.laser_positions

\* C5, amended: the laser count of the total is config.laser.numbers.
C5_TotalFromConfig ==
    g.session >= 1 =>
        /\ g.frames * settings.resolution = StepsPerRotation
        /\ g.total = g.frames * (IF settings.color THEN 2 ELSE 1) * config.laser_numbers

C5_Witness ==
    /\ g.session >= 1
    /\ settings.color
    /\ settings.laser_positions = 1 /\ config.laser_numbers = 2
    /\ g.frames = 2 /\ g.total = 8

\* C6: in a session that is not cancelled each phase acquires its frames at the
\* positions 0, 1, .., frames, in this order, and no frame more.
C6_PhasePositions ==
    OneStartOnly =>
        /\ IsCountingUp(g.acqTex, g.frames)
        /\ IsCountingUp(g.acqObj, g.frames)

C8_Backpressure ==
    /\ Len(image_task_q) <= config.process_numbers + 1
    /\ Blocked =>
        /\ atask # NoTask
        /\ ~ ENABLED (OnReceiveStart \/ OnReceiveStop \/ ScanNextTexturePosition
                        \/ ScanNextObjectPosition)
        /\ (ENABLED (TexturePut \/ ObjectPut))
             <=> (Len(image_task_q) < config.process_numbers + 1)

C8_Witness ==
    /\ Blocked
    /\ Len(image_task_q) = config.process_numbers + 1
    /\ inbox # <<>>

\* C9: when scan_complete writes the point cloud, the cloud holds the batch of
\* every frame counted in the progress counter.
C9_FlushHoldsCounted == g.flushCounted <= g.flushSize

\* C10: in a color scan that is not cancelled the texture frames increment the
\* counter frames times and the laser frames total - frames times.
C10_PhaseIncrements ==
    (OneStartOnly /\ settings.color) =>
        /\ g.texInc <= g.frames
        /\ g.objInc <= g.total - g.frames
        /\ g.completeCalls >= 1 => g.texInc = g.frames

\* C11: the append and the increment of one image_processed callback are one
\* atomic unit: while a callback stands between its append_points and its
\* increment, no other callback appends, increments or compares.
C11_AppendIncrementAtomic ==
    [][\A h \in Handlers :
          (hpc[h] = "inc" /\ hpc'[h] = "inc")
          => \A k \in Handlers \ {h} :
                hpc'[k] = hpc[k] \/ hpc[k] \in {"drain", "save", "reset"}]_vars

\* phase-advance commands waiting in an inbox
StepCommands(box) ==
    Cardinality({i \in 1 .. Len(box) :
                    box[i] \in {SCAN_NEXT_TEXTURE_POSITION, SCAN_NEXT_OBJECT_POSITION}})

\* C12: at most one frame is acquired between a STOP entering the inbox and the
\* actor processing it, and from a processed STOP to the next START no frame is
\* acquired and no phase step is posted.
C12_StopLatency ==
    [][/\ g'.stopLatency <= 1
       /\ (self.stop_scan /\ self'.stop_scan)
            => /\ g'.acqTex = g.acqTex /\ g'.acqObj = g.acqObj
               /\ StepCommands(inbox') <= StepCommands(inbox)]_vars

\* where a notice stands in a log (0: not in it)
Pos(x, log) ==
    IF \E i \in 1 .. Len(log) : log[i] = x
    THEN CHOOSE i \in 1 .. Len(log) : log[i] = x /\ \A j \in 1 .. i - 1 : log[j] # x
    ELSE 0

\* the notices of `order` that are in the log stand in it in this order, and none
\* is there without those before it
InOrder(order, log) ==
    \A i, j \in 1 .. Len(order) :
        (i < j /\ Pos(order[j], log) > 0)
        => (Pos(order[i], log) > 0 /\ Pos(order[i], log) < Pos(order[j], log))

\* the one scan_complete call of the session has saved the cloud
OneFinalization == g.completeCalls = 1 /\ g.notices # <<>>

\* C13: scan_complete persists the cloud, then the settings, deletes the images,
\* resets the state, broadcasts SCAN_COMPLETE and only then publishes COMPLETE.
C13_StatusBeforeCommand ==
    OneFinalization =>
        InOrder(<<"point_cloud.saveAsFile", "settings.saveAsFile", "delete_image_folders",
                  "reset_scanner_state", "SCAN_COMPLETE", "COMPLETE">>, g.notices)

\* C13, amended: COMPLETE is published before SCAN_COMPLETE is broadcast.
C13_CommandBeforeStatus ==
    OneFinalization =>
        InOrder(<<"point_cloud.saveAsFile", "settings.saveAsFile", "delete_image_folders",
                  "reset_scanner_state", "COMPLETE", "SCAN_COMPLETE">>, g.notices)

C13_Witness ==
    /\ OneFinalization
    /\ Pos("COMPLETE", g.notices) > 0 /\ Pos("SCAN_COMPLETE", g.notices) > 0
    /\ ~ self.point_cloud.live /\ self.total = 0

\* the actor leaves the texture phase: finish_texture_scan and the post of the
\* first laser step
TextureTeardown ==
    \/ apc = "tex_drain" /\ apc' = "recv"
    \/ /\ Receives(SCAN_NEXT_TEXTURE_POSITION)
       /\ ~ self.stop_scan
       /\ self.current_position > self.number_of_pictures
       /\ inbox' = Append(Tail(inbox), SCAN_NEXT_OBJECT_POSITION)

\* a callback executes the first statements of scan_complete
EntersScanComplete == \E h \in Handlers : hpc[h] = "save" /\ hpc'[h] # "save"

\* C14: the texture teardown with its post of the laser step, and the entry into
\* scan_complete, happen only in a state where the task queue is empty.
C14_DrainGuarded ==
    [][(TextureTeardown \/ EntersScanComplete) => image_task_q = <<>>]_vars

\* C15: in every state the progress counter is within 0 .. total, also after
\* scan_complete or STOP has zeroed the total and across a following START.
C15_ProgressInRange == self.progress >= 0 /\ self.progress <= self.total

\* C16: in every state 0 <= current_position <= number_of_pictures, the total is
\* positive while a session (its point cloud) is alive, and the first frame of each
\* phase is acquired at position 0.
C16_PositionInRange ==
    /\ self.current_position >= 0
    /\ self.current_position <= self.number_of_pictures
    /\ self.point_cloud.live => self.total > 0
    /\ Len(g.acqTex) > 0 => g.acqTex[1] = 0
    /\ Len(g.acqObj) > 0 => g.acqObj[1] = 0

\* phase-advance commands outstanding: those waiting in the inbox and the one whose
\* step the actor is executing (blocked in a put or in the drain loop)
Outstanding == StepCommands(inbox) + (IF apc = "recv" THEN 0 ELSE 1)

\* C17: whatever START and STOP commands are sent, at most one phase-advance
\* command is outstanding at any time.
C17_SingleStepChain == Outstanding <= 1

\* a scan_complete call of this session has run to its end
Finalized == g.completeCalls >= 1 /\ Pos("stopStream", g.notices) > 0

\* C18: once scan_complete has run for a session, and until the next START, no
\* frame is acquired and laser, LED, motors and camera stream stay off.
C18_IdleAfterFinalization ==
    [][(Finalized /\ g'.session = g.session)
        => /\ g'.acqTex = g.acqTex /\ g'.acqObj = g.acqObj
           /\ ~ self'.laser /\ ~ self'.led /\ ~ self'.motors /\ ~ self'.stream]_vars

\* the first scan_complete call of the session has just written the cloud
JustSaved == g.completeCalls = 1 /\ \E h \in Handlers : hpc[h] = "reset"

\* C19: in a session that is not cancelled, when scan_complete writes the cloud
\* the tasks enqueued in the session are as many as the total, all of them are
\* counted, and the laser frame at position number_of_pictures is among them.
C19_FinalizesAfterAllTasks ==
    (OneStartOnly /\ JustSaved) =>
        /\ Len(g.acqTex) + Len(g.acqObj) = g.total
        /\ g.texInc + g.objInc = Len(g.acqTex) + Len(g.acqObj)
        /\ Len(g.acqObj) = g.frames + 1

\* C20: sessions are isolated: START leaves the progress counter at 0, and the
\* completion event of a task of another session (another prefix) changes neither
\* the progress counter nor the point cloud.
C20_SessionsIsolated ==
    [][/\ g'.session # g.session => self'.progress = 0
       /\ (/\ event_q # <<>> /\ event_q' = Tail(event_q)
           /\ Head(event_q).prefix # self.prefix)
            => (self'.progress = self.progress /\ self'.point_cloud = self.point_cloud)
       /\ \A h \in Handlers :
            (hpc[h] = "inc" /\ hpc'[h] = "cmp" /\ hev[h].event.prefix # self.prefix)
            => self'.progress = self.progress]_vars

\* the session is over and no START was processed since: a STOP was processed, or
\* a scan_complete call has run to its end
BackInIdle == g.session >= 1 /\ (g.cancelled \/ Finalized)

\* C21: whenever the processor is back in idle, after a completed scan or after a
\* STOP, the camera brightness, contrast and saturation are what they were when
\* START was processed, and a settings file written by scan_complete holds the
\* user's values, never the values of the texture frames.
C21_CameraRestored ==
    /\ BackInIdle => settings.camera = g.camera
    /\ g.savedCamera # NoCamera => g.savedCamera = UserCamera

====
